---- MODULE Spec2Model ----
(***************************************************************************)
(* Model of the Zest OpenAI tool server (openai-tool-server/main.py): a    *)
(* FastAPI gateway that authenticates and validates inbound requests and   *)
(* forwards them over one shared httpx client to the Zest agent proxy,     *)
(* whose base URL is discovered at startup by probing local ports.         *)
(***************************************************************************)
EXTENDS Integers, Sequences, FiniteSets, TLC

(***************************************************************************)
(* JSON documents.  A document is a scalar (strings "s:..", integers       *)
(* "i:..", booleans "b:..", "null", a list "l:[]"), an object (a map from  *)
(* keys to documents) or a body that is not JSON at all.                   *)
(***************************************************************************)
NoMembers == [k \in {} |-> 0]

Sc(v) == [type |-> "scalar", value |-> v, members |-> NoMembers]

Obj(m) == [type |-> "object", value |-> "", members |-> m]

Null == Sc("null")

Malformed == [type |-> "malformed", value |-> "", members |-> NoMembers]

NoBody == [type |-> "none", value |-> "", members |-> NoMembers]

FromPairs(ps) == [k \in {p[1] : p \in ps} |-> (CHOOSE p \in ps : p[1] = k)[2]]

StrVals == {"s:a", "s:5", "s:class", "s:any", "s:"}

IntVals == {"i:5", "i:10"}

BoolVals == {"b:true", "b:false"}

Invalid == [type |-> "invalid", value |-> "", members |-> NoMembers]

\* pydantic's conversion of an input value to a declared field type: a value
\* of the type is kept, a numeric string is converted to the integer it
\* spells, anything else is a validation error.
Coerce(type, d) ==
    CASE type = "str" ->
            IF d.type = "scalar" /\ d.value \in StrVals THEN d ELSE Invalid
      [] type = "int" ->
            IF d.type = "scalar" /\ d.value \in IntVals THEN d
            ELSE IF d = Sc("s:5") THEN Sc("i:5")
            ELSE Invalid
      [] type = "bool" ->
            IF d.type = "scalar" /\ d.value \in BoolVals THEN d ELSE Invalid
      [] type = "dict" ->
            IF d.type = "object" THEN d ELSE Invalid
      [] OTHER -> Invalid

(***************************************************************************)
(* Request and response models (pydantic BaseModel declarations).          *)
(***************************************************************************)
Fld(name, type, required, nullable, default) ==
    [name |-> name, type |-> type, required |-> required,
     nullable |-> nullable, default |-> default]

ExploreCodeRequest ==
    { Fld("query", "str", TRUE, FALSE, Null),
      Fld("generate_report", "bool", FALSE, FALSE, Sc("b:false")),
      Fld("config", "dict", FALSE, TRUE, Null) }

ExploreCodeResponse ==
    { Fld("success", "bool", TRUE, FALSE, Null),
      Fld("summary", "str", TRUE, FALSE, Null),
      Fld("report", "dict", FALSE, TRUE, Null),
      Fld("error", "str", FALSE, TRUE, Null) }

ExecuteToolRequest ==
    { Fld("tool", "str", TRUE, FALSE, Null),
      Fld("parameters", "dict", TRUE, FALSE, Null) }

ExecuteToolResponse ==
    { Fld("success", "bool", TRUE, FALSE, Null),
      Fld("content", "str", TRUE, FALSE, Null),
      Fld("error", "str", FALSE, TRUE, Null) }

SearchCodeRequest ==
    { Fld("query", "str", TRUE, FALSE, Null),
      Fld("max_results", "int", FALSE, TRUE, Sc("i:10")) }

FindByNameRequest ==
    { Fld("name", "str", TRUE, FALSE, Null),
      Fld("type", "str", FALSE, TRUE, Sc("s:any")) }

ReadFileRequest == { Fld("file_path", "str", TRUE, FALSE, Null) }

FindRelationshipsRequest ==
    { Fld("element_id", "str", TRUE, FALSE, Null),
      Fld("relation_type", "str", FALSE, TRUE, Null) }

FindUsagesRequest == { Fld("element_id", "str", TRUE, FALSE, Null) }

GetClassInfoRequest == { Fld("class_name", "str", TRUE, FALSE, Null) }

AugmentQueryRequest == { Fld("query", "str", TRUE, FALSE, Null) }

ConfigUpdateRequest ==
    { Fld("max_tool_calls", "int", FALSE, TRUE, Null),
      Fld("max_rounds", "int", FALSE, TRUE, Null),
      Fld("include_tests", "bool", FALSE, TRUE, Null),
      Fld("deep_exploration", "bool", FALSE, TRUE, Null),
      Fld("timeout_seconds", "int", FALSE, TRUE, Null) }

NoSchema == {}

\* Field validation, had every field been declared with a default.
FieldValid_lenient(f, m) ==
    IF f.name \in DOMAIN m
    THEN \/ f.nullable /\ m[f.name] = Null
         \/ Coerce(f.type, m[f.name]) # Invalid
    ELSE TRUE

\* One declared field against the input object.
FieldValid(f, m) ==
    IF f.name \in DOMAIN m
    THEN \/ f.nullable /\ m[f.name] = Null
         \/ Coerce(f.type, m[f.name]) # Invalid
    ELSE ~f.required

\* BaseModel validation: the input is an object and every declared field is
\* valid; keys that are not declared are ignored.
Validates(schema, d) ==
    /\ d.type = "object"
    /\ \A f \in schema : FieldValid(f, d.members)

FieldValue(f, m) ==
    IF f.name \in DOMAIN m
    THEN IF f.nullable /\ m[f.name] = Null THEN Null ELSE Coerce(f.type, m[f.name])
    ELSE f.default

\* The model instance built from a valid input: exactly the declared fields,
\* each with its converted value or its default.
Parse(schema, d) ==
    [n \in {f.name : f \in schema} |->
        FieldValue(CHOOSE f \in schema : f.name = n, d.members)]

\* dict(), had it been called with exclude_none=True as update_config does.
Dict_exclude_none(model) ==
    Obj([n \in {k \in DOMAIN model : model[k] # Null} |-> model[n]])

\* BaseModel.dict()
Dict(model) == Obj(model)

\* BaseModel.dict(exclude_none=True)
DictExcludeNone(model) ==
    Obj([n \in {k \in DOMAIN model : model[k] # Null} |-> model[n]])

(***************************************************************************)
(* Configuration and process state.                                        *)
(***************************************************************************)
FirstPort == 8765

EndPort == 8776

ProbePorts == FirstPort .. (EndPort - 1)

Localhost(p) == [host |-> "localhost", port |-> p]

\* ZEST_PROXY_URL is unset (the default applies) or names some other URL.
DefaultProxyUrl == Localhost(8765)

ProxyUrlSettings == {DefaultProxyUrl, [host |-> "devbox", port |-> 9000]}

\* OPENAI_TOOL_SERVER_API_KEY is unset (empty) or a token.
ApiKeySettings == {"", "secret"}

None == "None"

AsyncClient == "AsyncClient#1"

VARIABLES
    ZEST_PROXY_URL,   \* the configured proxy URL (environment, or its default)
    API_KEY,          \* the configured bearer token, "" when none
    PROXY_BASE_URL,   \* module global: where calls are forwarded to
    http_client,      \* module global: the shared outbound client
    client_closed,    \* whether aclose() has run on the client
    lifecycle,        \* "loaded", "probing", "serving", "stopped"
    port,             \* lifespan's loop variable
    proxy_found,      \* lifespan's local flag
    probed,           \* the ports probed so far, in order
    response,         \* lifespan's local: the last probe and its outcome
    reqs              \* the inbound requests being served, by connection

vars == <<ZEST_PROXY_URL, API_KEY, PROXY_BASE_URL, http_client, client_closed,
          lifecycle, port, proxy_found, probed, response, reqs>>

config == <<ZEST_PROXY_URL, API_KEY>>

(***************************************************************************)
(* What the backend (or whatever listens on a port) does with a call.      *)
(***************************************************************************)
Raises(exc, msg) == [kind |-> "raise", status |-> 0, body |-> NoBody, exc |-> exc, msg |-> msg]

Answers(status, body) == [kind |-> "response", status |-> status, body |-> body, exc |-> "", msg |-> ""]

NoReply == [kind |-> "none", status |-> 0, body |-> NoBody, exc |-> "", msg |-> ""]

ProxyHealth ==
    Obj(FromPairs({<<"service", Sc("s:agent-proxy")>>, <<"project", Sc("s:a")>>}))

ProbeReplies ==
    { Raises("ConnectError", "All connection attempts failed"),
      Raises("ReadTimeout", ""),
      Answers(200, ProxyHealth),
      Answers(200, Obj(FromPairs({<<"service", Sc("s:other")>>}))),
      Answers(200, Obj(NoMembers)),
      Answers(200, Sc("l:[]")),
      Answers(200, Malformed),
      Answers(201, ProxyHealth),
      Answers(503, ProxyHealth) }

NoProbe == [port |-> 0, reply |-> NoReply]

\* The signature test, had it left out the check of the status code.
ServiceMatches_any_status(reply) ==
    /\ reply.kind = "response"
    /\ reply.body.type = "object"
    /\ "service" \in DOMAIN reply.body.members
    /\ reply.body.members["service"] = Sc("s:agent-proxy")

\* data.get("service") == "agent-proxy" on the parsed body; response.json()
\* raises on a body that is not JSON and .get raises on a non-object, both
\* caught by the loop's except clause.
ServiceMatches(reply) ==
    /\ reply.kind = "response"
    /\ reply.status = 200
    /\ reply.body.type = "object"
    /\ "service" \in DOMAIN reply.body.members
    /\ reply.body.members["service"] = Sc("s:agent-proxy")

(***************************************************************************)
(* lifespan: startup, port discovery, shutdown.                            *)
(***************************************************************************)
Idle ==
    [pc |-> "idle", route |-> "", auth |-> [scheme |-> "", credentials |-> ""],
     body |-> NoBody, outcome |-> "", calls |-> <<>>, reply |-> NoReply,
     resp |-> [kind |-> "none", status |-> 0,
               detail |-> [prefix |-> "", msg |-> ""], body |-> NoBody]]

lifespan_startup ==
    /\ lifecycle = "loaded"
    /\ http_client' = AsyncClient
    /\ port' = FirstPort
    /\ proxy_found' = FALSE
    /\ lifecycle' = "probing"
    /\ UNCHANGED <<config, PROXY_BASE_URL, client_closed, probed, response, reqs>>

\* lifespan, had a probe that does not match reset the base URL to the
\* default.
lifespan_probe_reset(reply) ==
    /\ lifecycle = "probing"
    /\ ~proxy_found
    /\ port < EndPort
    /\ probed' = Append(probed, port)
    /\ response' = [port |-> port, reply |-> reply]
    /\ IF ServiceMatches(reply)
       THEN /\ PROXY_BASE_URL' = Localhost(port)
            /\ proxy_found' = TRUE
            /\ port' = port
       ELSE /\ port' = port + 1
            /\ PROXY_BASE_URL' = DefaultProxyUrl
            /\ UNCHANGED proxy_found
    /\ UNCHANGED <<config, http_client, client_closed, lifecycle, reqs>>


lifespan_probe(reply) ==
    /\ lifecycle = "probing"
    /\ ~proxy_found
    /\ port < EndPort
    /\ probed' = Append(probed, port)
    /\ response' = [port |-> port, reply |-> reply]
    /\ IF ServiceMatches(reply)
       THEN /\ PROXY_BASE_URL' = Localhost(port)
            /\ proxy_found' = TRUE
            /\ port' = port
       ELSE /\ port' = port + 1
            /\ UNCHANGED <<PROXY_BASE_URL, proxy_found>>
    /\ UNCHANGED <<config, http_client, client_closed, lifecycle, reqs>>

\* lifespan, had it yielded to the application only once a proxy was found.
lifespan_yield_found_only ==
    /\ lifecycle = "probing"
    /\ proxy_found
    /\ lifecycle' = "serving"
    /\ response' = NoProbe
    /\ UNCHANGED <<config, PROXY_BASE_URL, http_client, client_closed, port,
                   proxy_found, probed, reqs>>


lifespan_yield ==
    /\ lifecycle = "probing"
    /\ proxy_found \/ port = EndPort
    /\ lifecycle' = "serving"
    /\ response' = NoProbe
    /\ UNCHANGED <<config, PROXY_BASE_URL, http_client, client_closed, port,
                   proxy_found, probed, reqs>>

lifespan_shutdown ==
    /\ lifecycle = "serving"
    /\ \A s \in DOMAIN reqs : reqs[s].pc = "idle"
    /\ client_closed' = TRUE
    /\ lifecycle' = "stopped"
    /\ UNCHANGED <<config, PROXY_BASE_URL, http_client, port, proxy_found,
                   probed, response, reqs>>

(***************************************************************************)
(* Authentication.                                                         *)
(***************************************************************************)
NoAuth == [scheme |-> "", credentials |-> ""]

Bearer(token) == [scheme |-> "Bearer", credentials |-> token]

\* security = HTTPBearer(): the dependency fails unless the request has an
\* Authorization header with the Bearer scheme and non-empty credentials.
HTTPBearer(auth) ==
    /\ auth.scheme # ""
    /\ auth.credentials # ""
    /\ auth.scheme = "Bearer"

\* The status HTTPBearer fails with: 403 in older FastAPI releases, 401 in
\* newer ones.
NotAuthenticatedStatus == {401, 403}

\* verify_api_key, had it only required some credentials to be presented.
verify_api_key_any(credentials) == ~(API_KEY # "" /\ credentials = "")

\* verify_api_key, had it left out the test that a token is configured.
verify_api_key_always(credentials) == credentials = API_KEY

\* verify_api_key passes unless a token is configured and the presented
\* credentials differ from it.
verify_api_key(credentials) == ~(API_KEY # "" /\ credentials # API_KEY)

(***************************************************************************)
(* Responses of the gateway and results of proxy_request.                  *)
(***************************************************************************)
Detail(prefix, msg) == [prefix |-> prefix, msg |-> msg]

NoDetail == Detail("", "")

\* A returned value, sent as JSON with status 200.
Json(doc) == [kind |-> "json", status |-> 200, detail |-> NoDetail, body |-> doc]

\* A raised HTTPException, which FastAPI sends as {"detail": detail} with
\* the given status.
HTTPException(status, detail) ==
    [kind |-> "http_exception", status |-> status, detail |-> detail, body |-> NoBody]

\* A RequestValidationError, which FastAPI sends with status 422.
ValidationError ==
    [kind |-> "validation_error", status |-> 422,
     detail |-> Detail("", "validation error"), body |-> NoBody]

\* Any other exception leaving a handler: an unhandled fault (status 500 and
\* a stack trace in the server log).
Unhandled ==
    [kind |-> "unhandled", status |-> 500, detail |-> NoDetail, body |-> NoBody]

Ok(payload) == [kind |-> "ok", status |-> 200, detail |-> NoDetail, payload |-> payload]

Raised(status, detail) ==
    [kind |-> "HTTPException", status |-> status, detail |-> detail, payload |-> NoBody]

\* proxy_request, had it opened a client of its own for each call.
proxy_request_call_own_client(endpoint, method, json_data) ==
    [client |-> "AsyncClient#2", method |-> method, base |-> PROXY_BASE_URL,
     path |-> endpoint, json |-> IF method = "POST" THEN json_data ELSE NoBody]

\* proxy_request up to its await: the outbound call it issues.
proxy_request_call(endpoint, method, json_data) ==
    [client |-> http_client, method |-> method, base |-> PROXY_BASE_URL,
     path |-> endpoint, json |-> IF method = "POST" THEN json_data ELSE NoBody]

\* proxy_request, had its last except clause passed the exception's own text
\* on without the prefix.
proxy_request_result_bare(reply) ==
    IF reply.kind = "raise"
    THEN Raised(500, Detail("", reply.msg))
    ELSE IF reply.status \notin 200..299
    THEN Raised(reply.status, Detail("", "HTTPStatusError"))
    ELSE IF reply.body = Malformed
    THEN Raised(500, Detail("", "JSONDecodeError"))
    ELSE Ok(reply.body)

\* proxy_request after its await: raise_for_status(), response.json() and
\* the two except clauses.
proxy_request_result(reply) ==
    IF reply.kind = "raise"
    THEN Raised(500, Detail("Proxy request failed: ", reply.msg))
    ELSE IF reply.status \notin 200..299
    THEN Raised(reply.status, Detail("", "HTTPStatusError"))
    ELSE IF reply.body = Malformed
    THEN Raised(500, Detail("Proxy request failed: ", "JSONDecodeError"))
    ELSE Ok(reply.body)

(***************************************************************************)
(* Routes and their handlers.  A handler is modelled by the arguments it   *)
(* passes to proxy_request (its part before the await) and by what it      *)
(* makes of proxy_request's result (its part after the await).             *)
(***************************************************************************)
Args(endpoint, method, json_data) ==
    [endpoint |-> endpoint, method |-> method, json_data |-> json_data]

health_check_call == Args("/health", "GET", NoBody)

\* health_check, had it re-raised HTTPException as explore_code does.
health_check_return_reraise(result) ==
    IF result.kind = "ok"
    THEN Json(Obj(FromPairs({<<"status", Sc("s:healthy")>>,
                             <<"proxy_connected", Sc("b:true")>>,
                             <<"proxy_info", result.payload>>})))
    ELSE HTTPException(result.status, result.detail)


health_check_return(result) ==
    IF result.kind = "ok"
    THEN Json(Obj(FromPairs({<<"status", Sc("s:healthy")>>,
                             <<"proxy_connected", Sc("b:true")>>,
                             <<"proxy_info", result.payload>>})))
    ELSE Json(Obj(FromPairs({<<"status", Sc("s:healthy")>>,
                             <<"proxy_connected", Sc("b:false")>>,
                             <<"proxy_info", Null>>})))

explore_code_call(request) == Args("/explore", "POST", Dict(request))

\* explore_code, had it lacked the clause that re-raises HTTPException.
explore_code_return_caught(result) ==
    IF result.kind = "HTTPException"
    THEN Json(Obj(FromPairs({<<"success", Sc("b:false")>>,
                             <<"summary", Sc("s:")>>,
                             <<"report", Null>>,
                             <<"error", Sc("s:str(e)")>>})))
    ELSE IF Validates(ExploreCodeResponse, result.payload)
    THEN Json(Dict(Parse(ExploreCodeResponse, result.payload)))
    ELSE Json(Obj(FromPairs({<<"success", Sc("b:false")>>,
                             <<"summary", Sc("s:")>>,
                             <<"report", Null>>,
                             <<"error", Sc("s:str(e)")>>})))


explore_code_return(result) ==
    IF result.kind = "HTTPException"
    THEN HTTPException(result.status, result.detail)
    ELSE IF Validates(ExploreCodeResponse, result.payload)
    THEN Json(Dict(Parse(ExploreCodeResponse, result.payload)))
    ELSE Json(Obj(FromPairs({<<"success", Sc("b:false")>>,
                             <<"summary", Sc("s:")>>,
                             <<"report", Null>>,
                             <<"error", Sc("s:str(e)")>>})))

execute_tool_call(request) == Args("/execute-tool", "POST", Dict(request))

\* execute_tool, had it returned the backend's payload as it is.
execute_tool_return_raw(result) ==
    IF result.kind = "HTTPException"
    THEN HTTPException(result.status, result.detail)
    ELSE IF Validates(ExecuteToolResponse, result.payload)
    THEN Json(result.payload)
    ELSE Json(Obj(FromPairs({<<"success", Sc("b:false")>>,
                             <<"content", Sc("s:")>>,
                             <<"error", Sc("s:str(e)")>>})))


\* execute_tool, had it lacked the clause that catches every other exception.
execute_tool_return_uncaught(result) ==
    IF result.kind = "HTTPException"
    THEN HTTPException(result.status, result.detail)
    ELSE IF Validates(ExecuteToolResponse, result.payload)
    THEN Json(Dict(Parse(ExecuteToolResponse, result.payload)))
    ELSE Unhandled


execute_tool_return(result) ==
    IF result.kind = "HTTPException"
    THEN HTTPException(result.status, result.detail)
    ELSE IF Validates(ExecuteToolResponse, result.payload)
    THEN Json(Dict(Parse(ExecuteToolResponse, result.payload)))
    ELSE Json(Obj(FromPairs({<<"success", Sc("b:false")>>,
                             <<"content", Sc("s:")>>,
                             <<"error", Sc("s:str(e)")>>})))

\* ExecuteToolRequest(tool=..., parameters=...)
NewExecuteToolRequest(tool, parameters) ==
    FromPairs({<<"tool", Sc(tool)>>, <<"parameters", parameters>>})

search_code_call(request) ==
    execute_tool_call(NewExecuteToolRequest("s:search_code", Dict(request)))

find_by_name_call(request) ==
    execute_tool_call(NewExecuteToolRequest("s:find_by_name", Dict(request)))

read_file_call(request) ==
    execute_tool_call(NewExecuteToolRequest("s:read_file", Dict(request)))

find_relationships_call(request) ==
    execute_tool_call(NewExecuteToolRequest("s:find_relationships", Dict(request)))

\* find_usages, had it been copied from find_relationships with its tool name.
find_usages_call_copied(request) ==
    execute_tool_call(NewExecuteToolRequest("s:find_relationships", Dict(request)))


find_usages_call(request) ==
    execute_tool_call(NewExecuteToolRequest("s:find_usages", Dict(request)))

get_class_info_call(request) ==
    execute_tool_call(NewExecuteToolRequest("s:get_class_info", Dict(request)))

\* The handlers that return proxy_request's result as it is.
relay_return(result) ==
    IF result.kind = "HTTPException"
    THEN HTTPException(result.status, result.detail)
    ELSE Json(result.payload)

list_tools_call == Args("/tools", "GET", NoBody)

augment_query_call(request) == Args("/augment", "POST", Dict(request))

get_status_call == Args("/status", "GET", NoBody)

\* get_config, had it asked for the status endpoint.
get_config_call_status == Args("/status", "GET", NoBody)


get_config_call == Args("/config", "GET", NoBody)

\* update_config, had it called dict() without exclude_none.
update_config_call_all(request) == Args("/config", "POST", Dict(request))


update_config_call(request) == Args("/config", "POST", DictExcludeNone(request))

OpenApiSchema == Obj(FromPairs({<<"openapi", Sc("s:a")>>}))

ConvenienceRoutes ==
    {"POST /search", "POST /find-by-name", "POST /read-file",
     "POST /find-relationships", "POST /find-usages", "POST /class-info"}

Routes ==
    {"GET /health", "POST /explore", "POST /execute-tool", "GET /tools",
     "POST /augment", "GET /status", "GET /config", "POST /config",
     "GET /openapi.json"} \cup ConvenienceRoutes

\* The routes, had health_check been declared with the dependency too.
Secured_all(route) == route # "GET /openapi.json"

\* The routes declared with Depends(verify_api_key).
Secured(route) == route \notin {"GET /health", "GET /openapi.json"}

\* The request model of a route's body parameter.
Schema(route) ==
    CASE route = "POST /explore" -> ExploreCodeRequest
      [] route = "POST /execute-tool" -> ExecuteToolRequest
      [] route = "POST /search" -> SearchCodeRequest
      [] route = "POST /find-by-name" -> FindByNameRequest
      [] route = "POST /read-file" -> ReadFileRequest
      [] route = "POST /find-relationships" -> FindRelationshipsRequest
      [] route = "POST /find-usages" -> FindUsagesRequest
      [] route = "POST /class-info" -> GetClassInfoRequest
      [] route = "POST /augment" -> AugmentQueryRequest
      [] route = "POST /config" -> ConfigUpdateRequest
      [] OTHER -> NoSchema

HasBody(route) == Schema(route) # NoSchema

\* The handler a route is bound to, up to its await.
HandlerCall(route, request) ==
    CASE route = "GET /health" -> health_check_call
      [] route = "POST /explore" -> explore_code_call(request)
      [] route = "POST /execute-tool" -> execute_tool_call(request)
      [] route = "GET /tools" -> list_tools_call
      [] route = "POST /search" -> search_code_call(request)
      [] route = "POST /find-by-name" -> find_by_name_call(request)
      [] route = "POST /read-file" -> read_file_call(request)
      [] route = "POST /find-relationships" -> find_relationships_call(request)
      [] route = "POST /find-usages" -> find_usages_call(request)
      [] route = "POST /class-info" -> get_class_info_call(request)
      [] route = "POST /augment" -> augment_query_call(request)
      [] route = "GET /status" -> get_status_call
      [] route = "GET /config" -> get_config_call
      [] route = "POST /config" -> update_config_call(request)

\* The handler a route is bound to, after its await.
HandlerReturn(route, result) ==
    CASE route = "GET /health" -> health_check_return(result)
      [] route = "POST /explore" -> explore_code_return(result)
      [] route \in ConvenienceRoutes \cup {"POST /execute-tool"} ->
            execute_tool_return(result)
      [] OTHER -> relay_return(result)

(***************************************************************************)
(* Inbound requests and backend replies considered.                        *)
(***************************************************************************)
Absent == [type |-> "absent", value |-> "", members |-> NoMembers]

Maybe(vals) == {Absent} \cup vals

\* The JSON object with the given members, leaving out the absent ones.
Body(pairs) == Obj(FromPairs({p \in pairs : p[2] # Absent}))

AList == Sc("l:[]")

SomeParameters == Obj(FromPairs({<<"directory", Sc("s:a")>>}))

Extra == Maybe({Sc("s:a")})

ExploreBodies ==
    { Body({<<"query", q>>, <<"generate_report", g>>, <<"config", c>>, <<"extra", x>>}) :
        q \in Maybe({Sc("s:a"), AList}),
        g \in Maybe({Sc("b:true"), AList}),
        c \in Maybe({SomeParameters, Sc("s:a")}),
        x \in {Absent} }

ExecuteToolBodies ==
    { Body({<<"tool", t>>, <<"parameters", q>>, <<"extra", x>>}) :
        t \in Maybe({Sc("s:a"), AList}),
        q \in Maybe({Obj(NoMembers), SomeParameters, Sc("s:a")}),
        x \in Extra }

SearchBodies ==
    { Body({<<"query", q>>, <<"max_results", m>>, <<"extra", x>>}) :
        q \in Maybe({Sc("s:a"), AList}),
        m \in Maybe({Null, Sc("i:5"), Sc("s:5"), Sc("s:a")}),
        x \in Extra }

FindByNameBodies ==
    { Body({<<"name", n>>, <<"type", t>>, <<"extra", x>>}) :
        n \in Maybe({Sc("s:a"), AList}),
        t \in Maybe({Null, Sc("s:class"), AList}),
        x \in Extra }

FindRelationshipsBodies ==
    { Body({<<"element_id", e>>, <<"relation_type", t>>, <<"extra", x>>}) :
        e \in Maybe({Sc("s:a"), AList}),
        t \in Maybe({Null, Sc("s:class"), AList}),
        x \in Extra }

OneFieldBodies(name) ==
    { Body({<<name, v>>, <<"extra", x>>}) :
        v \in Maybe({Sc("s:a"), AList, Null}), x \in Extra }

ConfigBodies ==
    { Body({<<"max_tool_calls", a>>, <<"max_rounds", b>>, <<"include_tests", c>>,
            <<"deep_exploration", d>>, <<"timeout_seconds", e>>}) :
        a \in Maybe({Null, Sc("i:5"), Sc("s:5")}),
        b \in Maybe({Sc("i:5")}),
        c \in Maybe({Null, Sc("b:true")}),
        d \in {Absent, Null},
        e \in Maybe({AList}) }

\* A body that is not JSON, no body at all, and a JSON body that is no object.
BadBodies == {Malformed, NoBody, AList}

Bodies(route) ==
    CASE route = "POST /explore" -> ExploreBodies \cup BadBodies
      [] route = "POST /execute-tool" -> ExecuteToolBodies \cup BadBodies
      [] route = "POST /search" -> SearchBodies \cup BadBodies
      [] route = "POST /find-by-name" -> FindByNameBodies \cup BadBodies
      [] route = "POST /read-file" -> OneFieldBodies("file_path") \cup BadBodies
      [] route = "POST /find-relationships" -> FindRelationshipsBodies \cup BadBodies
      [] route = "POST /find-usages" -> OneFieldBodies("element_id") \cup BadBodies
      [] route = "POST /class-info" -> OneFieldBodies("class_name") \cup BadBodies
      [] route = "POST /augment" -> OneFieldBodies("query") \cup BadBodies
      [] route = "POST /config" -> ConfigBodies \cup BadBodies
      [] OTHER -> {NoBody}

AuthHeaders ==
    {NoAuth, Bearer("secret"), Bearer("wrong"), [scheme |-> "Basic", credentials |-> "secret"]}

ToolPayload ==
    Obj(FromPairs({<<"success", Sc("b:true")>>, <<"content", Sc("s:a")>>}))

ToolPayloadFull ==
    Obj(FromPairs({<<"success", Sc("b:true")>>, <<"content", Sc("s:a")>>,
                   <<"error", Null>>}))

ExplorePayloadFull ==
    Obj(FromPairs({<<"success", Sc("b:true")>>, <<"summary", Sc("s:a")>>,
                   <<"report", Null>>, <<"error", Null>>}))

RichPayload ==
    Obj(FromPairs({<<"success", Sc("b:false")>>, <<"summary", Sc("s:a")>>,
                   <<"content", Sc("s:a")>>, <<"error", Sc("s:a")>>,
                   <<"extra", Sc("i:5")>>}))

BadlyTypedPayload ==
    Obj(FromPairs({<<"success", Sc("s:a")>>, <<"summary", Sc("s:a")>>,
                   <<"content", Sc("s:a")>>}))

OtherPayload == Obj(FromPairs({<<"tools", AList>>}))

Payloads ==
    {ToolPayload, ToolPayloadFull, ExplorePayloadFull, RichPayload,
     BadlyTypedPayload, OtherPayload, ProxyHealth, AList}

Replies ==
    { Raises("ConnectError", "All connection attempts failed"),
      Raises("ReadTimeout", ""),
      Answers(404, OtherPayload),
      Answers(200, Malformed) }
    \cup { Answers(200, p) : p \in Payloads }

(***************************************************************************)
(* Serving a request.                                                      *)
(***************************************************************************)
Finished(slot, outcome, resp) ==
    [slot EXCEPT !.pc = "done", !.outcome = outcome, !.resp = resp]

\* A request from its arrival to the handler's await (or to its response,
\* when it gets that far without awaiting): FastAPI parses the body, solves
\* the route's dependencies, validates the body and calls the handler.
Receive(s, route, auth, body) ==
    /\ lifecycle = "serving"
    /\ reqs[s].pc = "idle"
    /\ LET slot == [Idle EXCEPT !.route = route, !.auth = auth, !.body = body]
       IN
       IF HasBody(route) /\ body = Malformed
       THEN reqs' = [reqs EXCEPT ![s] = Finished(slot, "invalid", ValidationError)]
       ELSE IF Secured(route) /\ ~HTTPBearer(auth)
       THEN \E st \in NotAuthenticatedStatus :
              reqs' = [reqs EXCEPT ![s] =
                         Finished(slot, "auth_rejected",
                                  HTTPException(st, Detail("", "Not authenticated")))]
       ELSE IF Secured(route) /\ ~verify_api_key(auth.credentials)
       THEN reqs' = [reqs EXCEPT ![s] =
                       Finished(slot, "auth_rejected",
                                HTTPException(401, Detail("", "Invalid API key")))]
       ELSE IF HasBody(route) /\ ~Validates(Schema(route), body)
       THEN reqs' = [reqs EXCEPT ![s] = Finished(slot, "invalid", ValidationError)]
       ELSE IF route = "GET /openapi.json"
       THEN reqs' = [reqs EXCEPT ![s] = Finished(slot, "served", Json(OpenApiSchema))]
       ELSE IF http_client = None
       THEN reqs' = [reqs EXCEPT ![s] =
                       Finished(slot, "served",
                           HandlerReturn(route,
                               Raised(500, Detail("", "HTTP client not initialized"))))]
       ELSE LET request == IF HasBody(route) THEN Parse(Schema(route), body)
                           ELSE NoMembers
                a == HandlerCall(route, request)
            IN reqs' = [reqs EXCEPT ![s] =
                          [slot EXCEPT !.pc = "awaiting", !.outcome = "served",
                               !.calls = <<proxy_request_call(a.endpoint, a.method,
                                                              a.json_data)>>]]
    /\ UNCHANGED <<config, PROXY_BASE_URL, http_client, client_closed, lifecycle,
                   port, proxy_found, probed, response>>

\* The handler, had proxy_request re-issued a failed call once.
Resume_retry(slot, reply) ==
    IF (reply.kind = "raise" \/ reply.status \notin 200..299) /\ Len(slot.calls) < 2
    THEN [slot EXCEPT !.calls = Append(@, @[1])]
    ELSE [slot EXCEPT !.pc = "done", !.reply = reply,
                      !.resp = HandlerReturn(slot.route, proxy_request_result(reply))]

\* The handler from the completion of its outbound call to its response.
Resume(slot, reply) ==
    [slot EXCEPT !.pc = "done", !.reply = reply,
                 !.resp = HandlerReturn(slot.route, proxy_request_result(reply))]

\* The completion of a call, had the result been kept in a variable shared
\* by the requests: the handler picks up the result another request left.
Reply_shared_result(s, reply) ==
    /\ reqs[s].pc = "awaiting"
    /\ LET others == {t \in DOMAIN reqs \ {s} : reqs[t].reply # NoReply}
           used == IF others = {} THEN reply
                   ELSE reqs[CHOOSE t \in others : TRUE].reply
       IN reqs' = [reqs EXCEPT ![s] = [Resume(reqs[s], used) EXCEPT !.reply = reply]]
    /\ UNCHANGED <<config, PROXY_BASE_URL, http_client, client_closed, lifecycle,
                   port, proxy_found, probed, response>>


Reply(s, reply) ==
    /\ reqs[s].pc = "awaiting"
    /\ reqs' = [reqs EXCEPT ![s] = Resume(reqs[s], reply)]
    /\ UNCHANGED <<config, PROXY_BASE_URL, http_client, client_closed, lifecycle,
                   port, proxy_found, probed, response>>

\* The response has been sent; the connection is free for the next request.
Complete(s) ==
    /\ reqs[s].pc = "done"
    /\ reqs' = [reqs EXCEPT ![s] = Idle]
    /\ UNCHANGED <<config, PROXY_BASE_URL, http_client, client_closed, lifecycle,
                   port, proxy_found, probed, response>>

(***************************************************************************)
(* Specifications.  Spec serves one request at a time, with every route,   *)
(* credential and body above; SpecConc serves MaxConcurrent requests at a  *)
(* time, with fewer inputs.                                                *)
(***************************************************************************)
MaxConcurrent == 2

Loaded(connections) ==
    /\ ZEST_PROXY_URL \in ProxyUrlSettings
    /\ API_KEY \in ApiKeySettings
    /\ PROXY_BASE_URL = ZEST_PROXY_URL
    /\ http_client = None
    /\ client_closed = FALSE
    /\ lifecycle = "loaded"
    /\ port = 0
    /\ proxy_found = FALSE
    /\ probed = <<>>
    /\ response = NoProbe
    /\ reqs = [s \in connections |-> Idle]

Lifespan ==
    \/ lifespan_startup
    \/ \E reply \in ProbeReplies : lifespan_probe(reply)
    \/ lifespan_yield
    \/ lifespan_shutdown

Init == Loaded({1})

Next ==
    \/ Lifespan
    \/ \E s \in DOMAIN reqs, route \in Routes, auth \in AuthHeaders :
         \E body \in Bodies(route) : Receive(s, route, auth, body)
    \/ \E s \in DOMAIN reqs, reply \in Replies : Reply(s, reply)
    \/ \E s \in DOMAIN reqs : Complete(s)

Spec == Init /\ [][Next]_vars

ConcRoutes == {"GET /health", "POST /explore", "POST /search", "GET /tools"}

ConcBody(route) == IF HasBody(route) THEN Body({<<"query", Sc("s:a")>>}) ELSE NoBody

ConcReplies ==
    {Raises("ReadTimeout", ""), Answers(404, OtherPayload), Answers(200, RichPayload)}

InitConc == Loaded(1 .. MaxConcurrent)

NextConc ==
    \/ Lifespan
    \/ \E s \in DOMAIN reqs, route \in ConcRoutes :
         Receive(s, route, Bearer("secret"), ConcBody(route))
    \/ \E s \in DOMAIN reqs, reply \in ConcReplies : Reply(s, reply)
    \/ \E s \in DOMAIN reqs : Complete(s)

SpecConc == InitConc /\ [][NextConc]_vars

\* SpecConc with the scheduling the runtime guarantees: startup runs to its
\* yield (every probe ends within its 2 second timeout), and every outbound
\* call ends, with a response or with an exception, within the client's
\* timeout, upon which the event loop resumes the handler awaiting it.
SpecConcFair ==
    /\ SpecConc
    /\ WF_vars(lifespan_startup)
    /\ WF_vars(\E reply \in ProbeReplies : lifespan_probe(reply))
    /\ WF_vars(lifespan_yield)
    /\ \A s \in 1 .. MaxConcurrent : WF_vars(\E reply \in ConcReplies : Reply(s, reply))


(***************************************************************************)
(* Properties.                                                             *)
(***************************************************************************)
Failed(reply) ==
    \/ reply.kind = "raise"
    \/ reply.kind = "response" /\ reply.status \notin 200..299

NonEmpty(detail) == detail.prefix # "" \/ detail.msg # ""

\* C1: when no token is configured, a request without credentials is never
\* rejected by the authentication step, on any route.
C1_NoTokenAllRoutesOpen ==
    \A s \in DOMAIN reqs :
        (API_KEY = "" /\ reqs[s].pc # "idle" /\ reqs[s].auth = NoAuth
            /\ reqs[s].route # "GET /openapi.json")
        => reqs[s].outcome # "auth_rejected"

BadCredentials(auth) ==
    \/ auth.scheme # "Bearer"
    \/ auth.credentials = ""
    \/ auth.credentials # API_KEY

\* C2 as stated: with a token configured, a request on any route whose
\* bearer token is missing or wrong is rejected and causes no outbound call.
C2_AnyRouteRejected ==
    \A s \in DOMAIN reqs :
        (API_KEY # "" /\ reqs[s].pc # "idle" /\ BadCredentials(reqs[s].auth))
        => reqs[s].outcome # "served" /\ reqs[s].calls = <<>>

\* C2 as amended: with a token configured, a request whose bearer token is
\* missing or wrong is rejected and causes no outbound call, on every route
\* but /health and /openapi.json, which check no credentials.
C2_SecuredRoutesRejected ==
    \A s \in DOMAIN reqs :
        (API_KEY # "" /\ reqs[s].pc # "idle" /\ BadCredentials(reqs[s].auth)
            /\ reqs[s].route \notin {"GET /health", "GET /openapi.json"})
        => /\ reqs[s].pc = "done"
           /\ reqs[s].outcome # "served"
           /\ reqs[s].resp.kind \in {"http_exception", "validation_error"}
           /\ reqs[s].calls = <<>>
           /\ reqs[s].reply = NoReply

C2_Witness ==
    \E s \in DOMAIN reqs :
        /\ API_KEY = "secret"
        /\ reqs[s].pc = "done"
        /\ reqs[s].route = "POST /search"
        /\ reqs[s].auth = Bearer("wrong")
        /\ reqs[s].body = Body({<<"query", Sc("s:a")>>})
        /\ reqs[s].outcome = "auth_rejected"

IsFailurePayload(resp) ==
    /\ resp.kind = "json"
    /\ resp.body.type = "object"
    /\ {"success", "error"} \subseteq DOMAIN resp.body.members
    /\ resp.body.members["success"] = Sc("b:false")
    /\ resp.body.members["error"] \notin {Null, Sc("s:")}

\* C3 as stated: when the backend answers non-2xx or the call raises, the
\* caller gets a payload with success=false and a non-empty error.
C3_FailurePayload ==
    \A s \in DOMAIN reqs :
        (reqs[s].pc = "done" /\ Failed(reqs[s].reply))
        => IsFailurePayload(reqs[s].resp)

Degraded ==
    Json(Obj(FromPairs({<<"status", Sc("s:healthy")>>,
                        <<"proxy_connected", Sc("b:false")>>,
                        <<"proxy_info", Null>>})))

\* C3 as amended: when the backend answers non-2xx or the call raises, the
\* caller gets an HTTP error with a non-empty detail message, whose status is
\* the backend's status, or 500 when the call raised (on /health: a normal
\* response reporting proxy_connected=false); never an unhandled fault.
C3_FailureHttpError ==
    \A s \in DOMAIN reqs :
        (reqs[s].pc = "done" /\ Failed(reqs[s].reply))
        => IF reqs[s].route = "GET /health"
           THEN reqs[s].resp = Degraded
           ELSE /\ reqs[s].resp.kind = "http_exception"
                /\ reqs[s].resp.status =
                      (IF reqs[s].reply.kind = "raise" THEN 500
                       ELSE reqs[s].reply.status)
                /\ NonEmpty(reqs[s].resp.detail)

C3_Witness ==
    \E s \in DOMAIN reqs :
        /\ reqs[s].pc = "done"
        /\ reqs[s].route = "POST /explore"
        /\ reqs[s].reply = Raises("ReadTimeout", "")
        /\ reqs[s].resp.kind = "http_exception"

\* C4: /health always answers normally; it reports proxy_connected=true,
\* with the backend's payload as proxy_info, exactly when the backend health
\* call returned 2xx with a JSON body, and otherwise proxy_connected=false
\* with proxy_info=null.
C4_HealthNeverFails ==
    \A s \in DOMAIN reqs :
        (reqs[s].pc = "done" /\ reqs[s].route = "GET /health")
        => LET r == reqs[s].reply
               m == reqs[s].resp.body.members
           IN /\ reqs[s].resp.kind = "json"
              /\ reqs[s].resp.status = 200
              /\ DOMAIN m = {"status", "proxy_connected", "proxy_info"}
              /\ m["status"] = Sc("s:healthy")
              /\ IF r.kind = "response" /\ r.status \in 200..299 /\ r.body # Malformed
                 THEN m["proxy_connected"] = Sc("b:true") /\ m["proxy_info"] = r.body
                 ELSE m["proxy_connected"] = Sc("b:false") /\ m["proxy_info"] = Null

C4_Witness ==
    \E s \in DOMAIN reqs :
        /\ reqs[s].pc = "done"
        /\ reqs[s].route = "GET /health"
        /\ reqs[s].reply = Raises("ConnectError", "All connection attempts failed")
        /\ reqs[s].resp = Degraded

Parameters(call) == call.json.members["parameters"]

\* C5 as stated: on a convenience route the parameter map handed to the
\* backend equals the parameters of the inbound request.
C5_ParametersUnchanged ==
    \A s \in DOMAIN reqs :
        (reqs[s].route \in ConvenienceRoutes /\ reqs[s].calls # <<>>)
        => Parameters(reqs[s].calls[1]) = reqs[s].body

C5_Declared(route) ==
    CASE route = "POST /search" -> {"query", "max_results"}
      [] route = "POST /find-by-name" -> {"name", "type"}
      [] route = "POST /read-file" -> {"file_path"}
      [] route = "POST /find-relationships" -> {"element_id", "relation_type"}
      [] route = "POST /find-usages" -> {"element_id"}
      [] route = "POST /class-info" -> {"class_name"}

C5_Default(k) ==
    CASE k = "max_results" -> Sc("i:10")
      [] k = "type" -> Sc("s:any")
      [] OTHER -> Null

C5_Converted(k, v) ==
    IF k = "max_results" /\ v = Sc("s:5") THEN Sc("i:5") ELSE v

\* C5 as amended: on a convenience route the parameter map handed to the
\* backend holds exactly the fields the route's request model declares: a
\* field of the inbound request keeps its value (converted to the declared
\* type), an optional field the request leaves out is added with its default
\* (max_results=10, type="any", relation_type=null), and a key the model
\* does not declare is dropped.
C5_ParametersAreTheModel ==
    \A s \in DOMAIN reqs :
        (reqs[s].route \in ConvenienceRoutes /\ reqs[s].calls # <<>>)
        => LET p == Parameters(reqs[s].calls[1])
               b == reqs[s].body.members
           IN /\ p.type = "object"
              /\ DOMAIN p.members = C5_Declared(reqs[s].route)
              /\ \A k \in C5_Declared(reqs[s].route) :
                    p.members[k] = IF k \in DOMAIN b THEN C5_Converted(k, b[k])
                                   ELSE C5_Default(k)

C5_Witness ==
    \E s \in DOMAIN reqs :
        /\ reqs[s].pc = "awaiting"
        /\ reqs[s].route = "POST /find-relationships"
        /\ reqs[s].body = Body({<<"element_id", Sc("s:a")>>, <<"extra", Sc("s:a")>>})
        /\ Parameters(reqs[s].calls[1]) =
              Obj(FromPairs({<<"element_id", Sc("s:a")>>, <<"relation_type", Null>>}))

Succeeded(reply) ==
    reply.kind = "response" /\ reply.status \in 200..299 /\ reply.body # Malformed

RelayRoutes ==
    {"GET /tools", "POST /augment", "GET /status", "GET /config", "POST /config"}

C6_ResponseModel(route) ==
    IF route = "POST /explore" THEN ExploreCodeResponse ELSE ExecuteToolResponse

C6_ResponseFields(route) ==
    IF route = "POST /explore" THEN {"success", "summary", "report", "error"}
    ELSE {"success", "content", "error"}

C7_Required(route) ==
    CASE route = "POST /explore" -> {"query"}
      [] route = "POST /execute-tool" -> {"tool", "parameters"}
      [] route = "POST /search" -> {"query"}
      [] route = "POST /find-by-name" -> {"name"}
      [] route = "POST /read-file" -> {"file_path"}
      [] route = "POST /find-relationships" -> {"element_id"}
      [] route = "POST /find-usages" -> {"element_id"}
      [] route = "POST /class-info" -> {"class_name"}
      [] route = "POST /augment" -> {"query"}
      [] OTHER -> {}

C7_Optional(route) ==
    CASE route = "POST /explore" -> {"generate_report", "config"}
      [] route = "POST /search" -> {"max_results"}
      [] route = "POST /find-by-name" -> {"type"}
      [] route = "POST /find-relationships" -> {"relation_type"}
      [] route = "POST /config" ->
            {"max_tool_calls", "max_rounds", "include_tests", "deep_exploration",
             "timeout_seconds"}
      [] OTHER -> {}

C7_DeclaredType(k) ==
    CASE k \in {"parameters", "config"} -> "object"
      [] k \in {"generate_report", "include_tests", "deep_exploration"} -> "boolean"
      [] k \in {"max_results", "max_tool_calls", "max_rounds", "timeout_seconds"} ->
            "integer"
      [] OTHER -> "string"

C7_Nullable(k) == k # "generate_report"

C7_JsonType(d) ==
    CASE d.type = "object" -> "object"
      [] d = Null -> "null"
      [] d = AList -> "array"
      [] d.value \in {"b:true", "b:false"} -> "boolean"
      [] d.value \in {"i:5", "i:10"} -> "integer"
      [] OTHER -> "string"

C7_WronglyTyped(route, k, d) ==
    /\ C7_JsonType(d) # C7_DeclaredType(k)
    /\ ~(k \in C7_Optional(route) /\ C7_Nullable(k) /\ d = Null)

C7_Inconvertible(route, k, d) ==
    /\ C7_WronglyTyped(route, k, d)
    /\ ~(C7_DeclaredType(k) = "integer" /\ d = Sc("s:5"))

\* C7 as stated: a request whose body lacks a required field or carries a
\* wrongly typed field is rejected, and no outbound call is issued for it.
C7_InvalidRejected ==
    \A s \in DOMAIN reqs :
        LET route == reqs[s].route
            b == reqs[s].body.members
        IN (/\ reqs[s].pc # "idle"
            /\ HasBody(route)
            /\ \/ reqs[s].body.type # "object"
               \/ ~(C7_Required(route) \subseteq DOMAIN b)
               \/ \E k \in DOMAIN b \cap (C7_Required(route) \cup C7_Optional(route)) :
                     C7_WronglyTyped(route, k, b[k]))
           => reqs[s].outcome # "served" /\ reqs[s].calls = <<>>

\* C7 as amended: a request whose body lacks a required field, or carries a
\* field whose value cannot be converted to the declared type, is rejected,
\* and no outbound call is issued for it (a numeric string given for an
\* integer field is converted and accepted).
C7_InconvertibleRejected ==
    \A s \in DOMAIN reqs :
        LET route == reqs[s].route
            b == reqs[s].body.members
        IN (/\ reqs[s].pc # "idle"
            /\ HasBody(route)
            /\ \/ reqs[s].body.type # "object"
               \/ ~(C7_Required(route) \subseteq DOMAIN b)
               \/ \E k \in DOMAIN b \cap (C7_Required(route) \cup C7_Optional(route)) :
                     C7_Inconvertible(route, k, b[k]))
           => /\ reqs[s].pc = "done"
              /\ reqs[s].outcome # "served"
              /\ reqs[s].resp.kind \in {"http_exception", "validation_error"}
              /\ reqs[s].calls = <<>>

C7_Witness ==
    \E s \in DOMAIN reqs :
        /\ reqs[s].pc = "done"
        /\ reqs[s].route = "POST /execute-tool"
        /\ reqs[s].auth = Bearer("secret")
        /\ reqs[s].body = Body({<<"tool", Sc("s:a")>>})
        /\ reqs[s].outcome = "invalid"
        /\ reqs[s].resp = ValidationError

C8_Match(reply) ==
    /\ reply.kind = "response"
    /\ reply.status = 200
    /\ reply.body.type = "object"
    /\ "service" \in DOMAIN reply.body.members
    /\ reply.body.members["service"] = Sc("s:agent-proxy")

C8_Ascending ==
    /\ Len(probed) <= 11
    /\ \A i \in 1 .. Len(probed) : probed[i] = 8765 + (i - 1)

C8_Result ==
    /\ proxy_found => PROXY_BASE_URL = Localhost(probed[Len(probed)])
    /\ lifecycle = "serving" => proxy_found \/ Len(probed) = 11

C8_ProbeStep ==
    probed' # probed
    => /\ ~proxy_found
       /\ Len(probed') = Len(probed) + 1
       /\ response'.port = probed'[Len(probed')]
       /\ IF C8_Match(response'.reply)
          THEN /\ PROXY_BASE_URL' = Localhost(probed'[Len(probed')])
               /\ proxy_found'
          ELSE /\ PROXY_BASE_URL' = PROXY_BASE_URL
               /\ ~proxy_found'

\* C8: startup probes ports 8765..8775 in ascending order; the first port
\* whose probe returns status 200 and a JSON object with service equal to
\* "agent-proxy" becomes the base URL and ends the probing; any other probe
\* outcome leaves the base URL alone and probing goes on with the next port.
C8_Discovery ==
    /\ [](C8_Ascending /\ C8_Result)
    /\ [][C8_ProbeStep]_vars

C8_Witness ==
    /\ lifecycle = "serving"
    /\ proxy_found
    /\ probed = <<8765, 8766, 8767>>
    /\ PROXY_BASE_URL = Localhost(8767)

\* C9: once startup has completed no step of a request handler changes
\* PROXY_BASE_URL or http_client, and every outbound call in flight was
\* issued on the one shared client to the base URL set at startup.
C9_SharedStateStable ==
    /\ [][lifecycle = "serving"
            => PROXY_BASE_URL' = PROXY_BASE_URL /\ http_client' = http_client]_vars
    /\ [](lifecycle = "serving"
            => /\ http_client = "AsyncClient#1"
               /\ ~client_closed
               /\ \A s \in DOMAIN reqs : \A i \in 1 .. Len(reqs[s].calls) :
                     /\ reqs[s].calls[i].client = http_client
                     /\ reqs[s].calls[i].base = PROXY_BASE_URL)

C9_Witness ==
    /\ lifecycle = "serving"
    /\ \E s, t \in DOMAIN reqs :
          /\ s # t
          /\ reqs[s].pc = "awaiting"
          /\ reqs[t].pc = "awaiting"
          /\ reqs[s].calls[1].client = reqs[t].calls[1].client

\* C10: a request issues at most one outbound call; when that call
\* completes, whatever its outcome, the request is answered at once with
\* that outcome and no further call is issued.
C10_SingleCall ==
    /\ [](\A s \in DOMAIN reqs :
            /\ Len(reqs[s].calls) <= 1
            /\ reqs[s].reply # NoReply => Len(reqs[s].calls) = 1)
    /\ [][\A s \in DOMAIN reqs :
            (reqs[s].pc = "awaiting" /\ reqs'[s] # reqs[s])
            => /\ reqs'[s].pc = "done"
               /\ reqs'[s].calls = reqs[s].calls
               /\ reqs'[s].reply # NoReply
               /\ Failed(reqs'[s].reply)
                  => \/ reqs'[s].resp.kind = "http_exception"
                     \/ reqs'[s].resp = Degraded]_vars

C10_Witness ==
    \E s \in DOMAIN reqs :
        /\ reqs[s].pc = "done"
        /\ reqs[s].route = "POST /search"
        /\ Failed(reqs[s].reply)
        /\ Len(reqs[s].calls) = 1

\* The requests verify_api_key is called for: the route declares the
\* dependency and HTTPBearer has extracted bearer credentials.
C11_Presented(slot) ==
    /\ slot.pc # "idle"
    /\ slot.route \notin {"GET /health", "GET /openapi.json"}
    /\ slot.auth.scheme = "Bearer"
    /\ slot.auth.credentials # ""
    /\ slot.body # Malformed

C11_GoodBody(slot) ==
    \/ slot.body = NoBody /\ slot.route \in {"GET /tools", "GET /status", "GET /config"}
    \/ /\ slot.body.type = "object"
       /\ C7_Required(slot.route) \subseteq DOMAIN slot.body.members
       /\ \A k \in DOMAIN slot.body.members
                \cap (C7_Required(slot.route) \cup C7_Optional(slot.route)) :
             ~C7_Inconvertible(slot.route, k, slot.body.members[k])

\* C11: verify_api_key rejects with 401 "Invalid API key" exactly when a
\* token is configured and the presented credentials differ from it;
\* otherwise it accepts, and the request goes on to validation and, with a
\* valid body, to forwarding.
C11_EqualityCheck ==
    \A s \in DOMAIN reqs :
        C11_Presented(reqs[s])
        => IF API_KEY # "" /\ reqs[s].auth.credentials # API_KEY
           THEN /\ reqs[s].outcome = "auth_rejected"
                /\ reqs[s].resp = HTTPException(401, Detail("", "Invalid API key"))
                /\ reqs[s].calls = <<>>
           ELSE /\ reqs[s].outcome # "auth_rejected"
                /\ reqs[s].resp.status # 401 \/ reqs[s].reply.status = 401
                /\ C11_GoodBody(reqs[s])
                   => reqs[s].outcome = "served" /\ Len(reqs[s].calls) = 1

C11_Witness ==
    \E s \in DOMAIN reqs :
        /\ API_KEY = "secret"
        /\ reqs[s].pc = "awaiting"
        /\ reqs[s].route = "GET /status"
        /\ reqs[s].auth = Bearer("secret")
        /\ Len(reqs[s].calls) = 1

C13_Tool(route) ==
    CASE route = "POST /search" -> "s:search_code"
      [] route = "POST /find-by-name" -> "s:find_by_name"
      [] route = "POST /read-file" -> "s:read_file"
      [] route = "POST /find-relationships" -> "s:find_relationships"
      [] route = "POST /find-usages" -> "s:find_usages"
      [] route = "POST /class-info" -> "s:get_class_info"

\* C13: a served request on a convenience route issues exactly one call, a
\* POST to /execute-tool whose tool name is fixed by the route, whatever the
\* request body.
C13_FixedTool ==
    \A s \in DOMAIN reqs :
        (reqs[s].route \in ConvenienceRoutes /\ reqs[s].outcome = "served")
        => /\ Len(reqs[s].calls) = 1
           /\ reqs[s].calls[1].method = "POST"
           /\ reqs[s].calls[1].path = "/execute-tool"
           /\ reqs[s].calls[1].json.type = "object"
           /\ DOMAIN reqs[s].calls[1].json.members = {"tool", "parameters"}
           /\ reqs[s].calls[1].json.members["tool"] = Sc(C13_Tool(reqs[s].route))

C13_Witness ==
    \E s \in DOMAIN reqs :
        /\ reqs[s].pc = "awaiting"
        /\ reqs[s].route = "POST /find-usages"
        /\ reqs[s].body = Body({<<"element_id", Sc("s:a")>>, <<"extra", Sc("s:a")>>})
        /\ reqs[s].calls[1].json.members["tool"] = Sc("s:find_usages")

C14_Method(route) ==
    IF route \in {"GET /health", "GET /tools", "GET /status", "GET /config"}
    THEN "GET" ELSE "POST"

C14_Path(route) ==
    CASE route = "GET /health" -> "/health"
      [] route = "POST /explore" -> "/explore"
      [] route = "POST /execute-tool" -> "/execute-tool"
      [] route = "GET /tools" -> "/tools"
      [] route = "POST /augment" -> "/augment"
      [] route = "GET /status" -> "/status"
      [] route \in {"GET /config", "POST /config"} -> "/config"

\* C14: a served request on a route that is no convenience route issues a
\* call with the route's own method and path on the backend base URL, and a
\* GET call carries no body.
C14_SameMethodAndPath ==
    \A s \in DOMAIN reqs :
        (/\ reqs[s].outcome = "served"
         /\ reqs[s].route \notin ConvenienceRoutes \cup {"GET /openapi.json"})
        => /\ Len(reqs[s].calls) = 1
           /\ reqs[s].calls[1].method = C14_Method(reqs[s].route)
           /\ reqs[s].calls[1].path = C14_Path(reqs[s].route)
           /\ reqs[s].calls[1].base = PROXY_BASE_URL
           /\ reqs[s].calls[1].method = "GET" => reqs[s].calls[1].json = NoBody
           /\ reqs[s].calls[1].method = "POST" => reqs[s].calls[1].json.type = "object"

C14_Witness ==
    \E s \in DOMAIN reqs :
        /\ reqs[s].pc = "awaiting"
        /\ reqs[s].route = "GET /config"
        /\ reqs[s].calls[1].method = "GET"
        /\ reqs[s].calls[1].path = "/config"
        /\ reqs[s].calls[1].json = NoBody

C12_OwnOutcome(slot) ==
    (slot.pc = "done" /\ slot.reply # NoReply)
    => /\ Failed(slot.reply)
          => slot.resp.kind = "http_exception" \/ slot.resp = Degraded
       /\ (Failed(slot.reply) /\ slot.resp.kind = "http_exception")
          => slot.resp.status =
                (IF slot.reply.kind = "raise" THEN 500 ELSE slot.reply.status)
       /\ Succeeded(slot.reply)
          => /\ slot.resp.kind = "json"
             /\ slot.route = "GET /tools" => slot.resp.body = slot.reply.body
             /\ slot.route = "GET /health"
                => slot.resp.body.members["proxy_info"] = slot.reply.body

C12_Step ==
    \A s \in DOMAIN reqs :
        reqs'[s] # reqs[s] => \A t \in DOMAIN reqs \ {s} : reqs'[t] = reqs[t]

\* C12: with requests served concurrently, a step of one request leaves
\* every other request as it is, the response of a request reflects the
\* outcome of its own outbound call, and every request awaiting its call is
\* eventually answered, whatever the other requests are waiting for.
C12_Independent ==
    /\ [](\A s \in DOMAIN reqs : C12_OwnOutcome(reqs[s]))
    /\ [][C12_Step]_vars
    /\ \A s \in 1 .. MaxConcurrent :
          (reqs[s].pc = "awaiting") ~> (reqs[s].pc = "done")

C12_Witness ==
    \E s, t \in DOMAIN reqs :
        /\ s # t
        /\ reqs[s].pc = "done"
        /\ Succeeded(reqs[s].reply)
        /\ reqs[s].resp.kind = "json"
        /\ reqs[t].pc = "awaiting"

C15_Bounded ==
    /\ Len(probed) <= 11
    /\ \A i \in 1 .. Len(probed) : probed[i] \in 8765 .. 8775
    /\ \A i, j \in 1 .. Len(probed) : i # j => probed[i] # probed[j]
    /\ lifecycle \in {"loaded", "probing", "serving", "stopped"}

\* C15: startup issues at most 11 probes, one per port 8765..8775 and none
\* twice, and whatever the probes' outcomes the gateway reaches the serving
\* state.
C15_StartupTerminates ==
    /\ []C15_Bounded
    /\ <>(lifecycle = "serving")

C15_Witness ==
    /\ lifecycle = "serving"
    /\ ~proxy_found
    /\ Len(probed) = 11
    /\ PROXY_BASE_URL = ZEST_PROXY_URL

C16_Written == PROXY_BASE_URL' # PROXY_BASE_URL \/ proxy_found' # proxy_found

\* C16: when no probed port matches, the base URL stays at its configured
\* value; when a port matches, it becomes http://localhost:<port> whatever
\* the configured value; startup writes it at most once.
C16_BaseUrlFrame ==
    /\ [](IF proxy_found
          THEN PROXY_BASE_URL = Localhost(probed[Len(probed)])
          ELSE PROXY_BASE_URL = ZEST_PROXY_URL)
    /\ [](ZEST_PROXY_URL \in {Localhost(8765), [host |-> "devbox", port |-> 9000]})
    /\ [][C16_Written
            => /\ lifecycle = "probing"
               /\ ~proxy_found
               /\ proxy_found'
               /\ PROXY_BASE_URL' = Localhost(port)]_vars
    /\ [][ZEST_PROXY_URL' = ZEST_PROXY_URL]_vars

C16_Witness ==
    /\ lifecycle = "serving"
    /\ ZEST_PROXY_URL = [host |-> "devbox", port |-> 9000]
    /\ proxy_found
    /\ probed = <<8765, 8766>>
    /\ PROXY_BASE_URL = Localhost(8766)

ModelRoutes == ConvenienceRoutes \cup {"POST /explore", "POST /execute-tool"}

\* C17: when the backend answers non-2xx the gateway raises an HTTP error
\* with the backend's status; when the call raises or the body is no JSON it
\* raises status 500 with a message prefixed "Proxy request failed: "; the
\* detail is never empty, and /explore, /execute-tool and the convenience
\* routes pass this error on as it is.
C17_ErrorMapping ==
    \A s \in DOMAIN reqs :
        (/\ reqs[s].pc = "done"
         /\ reqs[s].reply # NoReply
         /\ ~Succeeded(reqs[s].reply)
         /\ reqs[s].route # "GET /health")
        => LET r == reqs[s].reply
               e == reqs[s].resp
           IN /\ e.kind = "http_exception"
              /\ NonEmpty(e.detail)
              /\ IF r.kind = "response" /\ r.status \notin 200..299
                 THEN e.status = r.status /\ e.detail.prefix = ""
                 ELSE e.status = 500 /\ e.detail.prefix = "Proxy request failed: "
              /\ r.kind = "raise" => e.detail.msg = r.msg

C17_Witness ==
    \E s \in DOMAIN reqs :
        /\ reqs[s].pc = "done"
        /\ reqs[s].route = "POST /explore"
        /\ reqs[s].reply = Answers(200, Malformed)
        /\ reqs[s].resp =
              HTTPException(500, Detail("Proxy request failed: ", "JSONDecodeError"))

C18_Needed(route) == IF route = "POST /explore" THEN "summary" ELSE "content"

C18_Schema(route) ==
    IF route = "POST /explore" THEN ExploreCodeResponse ELSE ExecuteToolResponse

C18_Fits(route, payload) == Validates(C18_Schema(route), payload)

\* C18: when the backend answers /explore, /execute-tool or a convenience
\* route with a 2xx JSON payload that does not fit the response model, the
\* gateway answers normally with success false, an empty summary (/explore)
\* or content (the others), and a non-empty error.
C18_UnfitPayload ==
    \A s \in DOMAIN reqs :
        (/\ reqs[s].pc = "done"
         /\ reqs[s].route \in ModelRoutes
         /\ Succeeded(reqs[s].reply)
         /\ ~C18_Fits(reqs[s].route, reqs[s].reply.body))
        => /\ reqs[s].resp.kind = "json"
           /\ reqs[s].resp.status = 200
           /\ reqs[s].resp.body.type = "object"
           /\ {"success", "error", C18_Needed(reqs[s].route)}
                 \subseteq DOMAIN reqs[s].resp.body.members
           /\ reqs[s].resp.body.members["success"] = Sc("b:false")
           /\ reqs[s].resp.body.members[C18_Needed(reqs[s].route)] = Sc("s:")
           /\ reqs[s].resp.body.members["error"] \notin {Null, Sc("s:")}

C18_Witness ==
    \E s \in DOMAIN reqs :
        /\ reqs[s].pc = "done"
        /\ reqs[s].route = "POST /read-file"
        /\ reqs[s].reply = Answers(200, OtherPayload)
        /\ reqs[s].resp.body.members["success"] = Sc("b:false")
        /\ reqs[s].resp.body.members["content"] = Sc("s:")

C19_Fields ==
    {"max_tool_calls", "max_rounds", "include_tests", "deep_exploration",
     "timeout_seconds"}

\* C19: POST /config forwards exactly the configuration fields the request
\* gives a non-null value; a field that is absent or null is not forwarded,
\* and an empty request forwards an empty object.
C19_OnlySuppliedFields ==
    \A s \in DOMAIN reqs :
        (reqs[s].route = "POST /config" /\ reqs[s].outcome = "served")
        => LET b == reqs[s].body.members
               j == reqs[s].calls[1].json
           IN /\ j.type = "object"
              /\ DOMAIN j.members = {k \in DOMAIN b \cap C19_Fields : b[k] # Null}
              /\ \A k \in DOMAIN j.members :
                    j.members[k] = IF b[k] = Sc("s:5") THEN Sc("i:5") ELSE b[k]
              /\ b = NoMembers => j = Obj(NoMembers)

C19_Witness ==
    \E s \in DOMAIN reqs :
        /\ reqs[s].pc = "awaiting"
        /\ reqs[s].route = "POST /config"
        /\ reqs[s].body = Body({<<"max_tool_calls", Null>>, <<"max_rounds", Sc("i:5")>>})
        /\ reqs[s].calls[1].json = Obj(FromPairs({<<"max_rounds", Sc("i:5")>>}))

\* C20: GET /health performs no authentication check: whether or not a
\* token is configured, a health request without credentials or with a wrong
\* token is served and issues GET /health to the backend, and the payload the
\* backend answers with is relayed as proxy_info.
C20_HealthOpen ==
    \A s \in DOMAIN reqs :
        (/\ reqs[s].route = "GET /health"
         /\ reqs[s].pc # "idle"
         /\ reqs[s].auth \in {NoAuth, Bearer("wrong")})
        => /\ reqs[s].outcome = "served"
           /\ Len(reqs[s].calls) = 1
           /\ reqs[s].calls[1].method = "GET"
           /\ reqs[s].calls[1].path = "/health"
           /\ (reqs[s].pc = "done" /\ Succeeded(reqs[s].reply))
              => /\ reqs[s].resp.kind = "json"
                 /\ reqs[s].resp.status = 200
                 /\ reqs[s].resp.body.members["proxy_info"] = reqs[s].reply.body

C20_Witness ==
    \E s \in DOMAIN reqs :
        /\ API_KEY = "secret"
        /\ reqs[s].pc = "done"
        /\ reqs[s].route = "GET /health"
        /\ reqs[s].auth = Bearer("wrong")
        /\ reqs[s].reply = Answers(200, ProxyHealth)
        /\ reqs[s].resp.body.members["proxy_info"] = ProxyHealth
====
